---- MODULE Spec2Model ----
(***************************************************************************)
(* Thumbnail editor: the image reference normalizer, the capture-readiness *)
(* waiter and the bitmap export pipeline of ThumbnailEditor, as a state    *)
(* machine.  Strings that the code inspects (trim, startsWith, includes,   *)
(* the scheme regex, encodeURIComponent) are sequences of one-character    *)
(* strings; file names and messages are plain strings.                     *)
(***************************************************************************)
EXTENDS Integers, Sequences, FiniteSets, TLC

(* ------------------------------ bounds -------------------------------- *)
\* number of invocations of downloadThumbnail whose records are kept, so the
\* number of exports that could be past the guard together
MaxExports == 2
\* number of user events (typing, toggles, reset, file choice, clicks on
\* Download, leaving the page) in one behaviour
MaxUserEvents == 2
\* length of the whitespace put before and after an image reference
MaxPad == 1
\* length of the strings entered in the change-percent field
MaxPercentLen == 3

(* --------------------------- string literals -------------------------- *)
EmptyString == <<>>
DefaultCardImage ==
  <<"h", "t", "t", "p", "s", ":", "/", "/", "i", "m", "a", "g", "e", "s", ".",
  "u", "n", "s", "p", "l", "a", "s", "h", ".", "c", "o", "m", "/", "p", "h",
  "o", "t", "o", "-", "1", "6", "0", "6", "5", "0", "2", "2", "8", "1", "0",
  "0", "4", "-", "f", "8", "6", "c", "f", "1", "2", "8", "2", "a", "f", "5",
  "?", "w", "=", "4", "0", "0", "&", "h", "=", "6", "0", "0", "&", "f", "i",
  "t", "=", "c", "r", "o", "p">>
\* the default image behind the relay
ProxiedDefaultCardImage ==
  <<"h", "t", "t", "p", "s", ":", "/", "/", "i", "m", "a", "g", "e", "s", ".",
  "w", "e", "s", "e", "r", "v", ".", "n", "l", "/", "?", "u", "r", "l", "=",
  "i", "m", "a", "g", "e", "s", ".", "u", "n", "s", "p", "l", "a", "s", "h",
  ".", "c", "o", "m", "%", "2", "F", "p", "h", "o", "t", "o", "-", "1", "6",
  "0", "6", "5", "0", "2", "2", "8", "1", "0", "0", "4", "-", "f", "8", "6",
  "c", "f", "1", "2", "8", "2", "a", "f", "5", "%", "3", "F", "w", "%", "3",
  "D", "4", "0", "0", "%", "2", "6", "h", "%", "3", "D", "6", "0", "0", "%",
  "2", "6", "f", "i", "t", "%", "3", "D", "c", "r", "o", "p">>
RelayBase ==
  <<"h", "t", "t", "p", "s", ":", "/", "/", "i", "m", "a", "g", "e", "s", ".",
  "w", "e", "s", "e", "r", "v", ".", "n", "l", "/", "?", "u", "r", "l", "=">>
WeservMarker ==
  <<"i", "m", "a", "g", "e", "s", ".", "w", "e", "s", "e", "r", "v", ".", "n",
  "l", "/", "?", "u", "r", "l", "=">>
WsrvMarker ==
  <<"w", "s", "r", "v", ".", "n", "l", "/", "?", "u", "r", "l", "=">>
DataPrefix ==
  <<"d", "a", "t", "a", ":">>
BlobPrefix ==
  <<"b", "l", "o", "b", ":">>
HttpScheme ==
  <<"h", "t", "t", "p", ":", "/", "/">>
HttpsScheme ==
  <<"h", "t", "t", "p", "s", ":", "/", "/">>
PaddedRemoteUrl ==
  <<"h", "t", "t", "p", ":", "/", "/", "a", ".", "i", "o", "/", "c", " ">>
LocalPath ==
  <<"c", ".", "p", "n", "g">>
UploadedImage ==
  <<"d", "a", "t", "a", ":", "u">>
RemoteUrl ==
  <<"h", "t", "t", "p", ":", "/", "/", "a", ".", "i", "o", "/", "c">>
MixedCaseUrl ==
  <<"H", "T", "T", "P", "S", ":", "/", "/", "a", ".", "i", "o", "/", "c">>
BlobUrl ==
  <<"b", "l", "o", "b", ":", "b">>
SpecExamplePercent ==
  <<"-", "1", "2", "%">>
PaddedDataUrl ==
  <<"d", "a", "t", "a", ":", "p", " ">>
ProxiedUrl ==
  <<"h", "t", "t", "p", "s", ":", "/", "/", "w", "s", "r", "v", ".", "n", "l", "/", "?", "u", "r", "l", "=", "a", ".", "i", "o", "/", "c">>
DefaultChangePercent ==
  <<"3", "7", "5">>
InlinedImage ==
  <<"d", "a", "t", "a", ":", "i">>

(* --------------------------- string helpers --------------------------- *)
Whitespace == {" ", "\t", "\n", "\r"}

RECURSIVE trimStart(_)
trimStart(s) ==
  IF s # <<>> /\ Head(s) \in Whitespace THEN trimStart(Tail(s)) ELSE s

RECURSIVE trimEnd(_)
trimEnd(s) ==
  IF s # <<>> /\ s[Len(s)] \in Whitespace
    THEN trimEnd(SubSeq(s, 1, Len(s) - 1))
    ELSE s

\* String.prototype.trim
trim(s) == trimEnd(trimStart(s))

\* String.prototype.startsWith
startsWith(s, prefix) ==
  Len(s) >= Len(prefix) /\ SubSeq(s, 1, Len(prefix)) = prefix

\* String.prototype.includes
includes(s, part) ==
  \E i \in 1..(Len(s) - Len(part) + 1) :
    \A k \in 1..Len(part) : s[i + k - 1] = part[k]

UpperCase ==
  <<"A", "B", "C", "D", "E", "F", "G", "H", "I", "J", "K", "L", "M",
    "N", "O", "P", "Q", "R", "S", "T", "U", "V", "W", "X", "Y", "Z">>
LowerCase ==
  <<"a", "b", "c", "d", "e", "f", "g", "h", "i", "j", "k", "l", "m",
    "n", "o", "p", "q", "r", "s", "t", "u", "v", "w", "x", "y", "z">>
UpperCaseLetters ==
  {"A", "B", "C", "D", "E", "F", "G", "H", "I", "J", "K", "L", "M",
   "N", "O", "P", "Q", "R", "S", "T", "U", "V", "W", "X", "Y", "Z"}
Digits == {"0", "1", "2", "3", "4", "5", "6", "7", "8", "9"}

\* the case folding of the regex flag i
toLower(c) ==
  IF c \in UpperCaseLetters
    THEN LowerCase[CHOOSE k \in 1..26 : UpperCase[k] = c]
    ELSE c

lowerPrefix(s, n) == [k \in 1..n |-> toLower(s[k])]

\* length of the match of /^https?:\/\//i at the start of s, 0 when none
schemeLen(s) ==
  IF Len(s) >= Len(HttpsScheme) /\ lowerPrefix(s, Len(HttpsScheme)) = HttpsScheme
    THEN Len(HttpsScheme)
    ELSE IF Len(s) >= Len(HttpScheme) /\ lowerPrefix(s, Len(HttpScheme)) = HttpScheme
      THEN Len(HttpScheme)
      ELSE 0

\* characters encodeURIComponent leaves alone
Unreserved ==
  {"A", "B", "C", "D", "E", "F", "G", "H", "I", "J", "K", "L", "M",
   "N", "O", "P", "Q", "R", "S", "T", "U", "V", "W", "X", "Y", "Z",
   "a", "b", "c", "d", "e", "f", "g", "h", "i", "j", "k", "l", "m",
   "n", "o", "p", "q", "r", "s", "t", "u", "v", "w", "x", "y", "z",
   "0", "1", "2", "3", "4", "5", "6", "7", "8", "9", "-", "_", ".",
   "!", "~", "*", "'", "(", ")"}

\* percent-encoding of the other ASCII characters the model's strings use
percentCode(c) ==
  CASE c = " " -> <<"%", "2", "0">>
    [] c = "\t" -> <<"%", "0", "9">>
    [] c = "\n" -> <<"%", "0", "A">>
    [] c = "\r" -> <<"%", "0", "D">>
    [] c = "#" -> <<"%", "2", "3">>
    [] c = "$" -> <<"%", "2", "4">>
    [] c = "%" -> <<"%", "2", "5">>
    [] c = "&" -> <<"%", "2", "6">>
    [] c = "+" -> <<"%", "2", "B">>
    [] c = "," -> <<"%", "2", "C">>
    [] c = "/" -> <<"%", "2", "F">>
    [] c = ":" -> <<"%", "3", "A">>
    [] c = ";" -> <<"%", "3", "B">>
    [] c = "=" -> <<"%", "3", "D">>
    [] c = "?" -> <<"%", "3", "F">>
    [] c = "@" -> <<"%", "4", "0">>

\* the percent-encoding of the characters lo..hi of s
RECURSIVE encodeRange(_, _, _)
encodeRange(s, lo, hi) ==
  IF lo > hi
    THEN <<>>
    ELSE IF lo = hi
      THEN (IF s[lo] \in Unreserved THEN <<s[lo]>> ELSE percentCode(s[lo]))
      ELSE encodeRange(s, lo, (lo + hi) \div 2)
             \o encodeRange(s, (lo + hi) \div 2 + 1, hi)

\* every character outside the unreserved set becomes its percent code
encodeURIComponent(s) == encodeRange(s, 1, Len(s))

(* ------------------- image reference classification ------------------- *)
isDataUrl(value) == startsWith(value, DataPrefix) \/ startsWith(value, BlobPrefix)

isRemoteUrl(value) == schemeLen(value) > 0

\* a test that recognises no relay URL
isProxyUrl_Never(value) == FALSE

isProxyUrl(value) == includes(value, WeservMarker) \/ includes(value, WsrvMarker)

\* a rewrite that keeps the scheme
buildProxyUrl_KeepsScheme(value) == RelayBase \o encodeURIComponent(value)

buildProxyUrl(value) ==
  LET stripped == SubSeq(value, schemeLen(value) + 1, Len(value))
  IN  RelayBase \o encodeURIComponent(stripped)

\* a normalizer that returns embedded and relay references untrimmed
displayCardImage_EmbeddedRaw(image, proxy) ==
  LET trimmed == trim(image)
  IN  IF trimmed = EmptyString
        THEN trimmed
        ELSE IF ~proxy \/ isDataUrl(trimmed) \/ isProxyUrl(trimmed)
          THEN image
          ELSE IF isRemoteUrl(trimmed) THEN buildProxyUrl(trimmed) ELSE trimmed

\* a normalizer that returns blank and other references untrimmed
displayCardImage_OtherRaw(image, proxy) ==
  LET trimmed == trim(image)
  IN  IF trimmed = EmptyString
        THEN image
        ELSE IF ~proxy \/ isDataUrl(trimmed) \/ isProxyUrl(trimmed)
          THEN trimmed
          ELSE IF isRemoteUrl(trimmed) THEN buildProxyUrl(trimmed) ELSE image

\* the useMemo body: the reference handed to the template
displayCardImage(image, proxy) ==
  LET trimmed == trim(image)
  IN  IF trimmed = EmptyString
        THEN trimmed
        ELSE IF ~proxy \/ isDataUrl(trimmed) \/ isProxyUrl(trimmed)
          THEN trimmed
          ELSE IF isRemoteUrl(trimmed) THEN buildProxyUrl(trimmed) ELSE trimmed

\* the candidates with the raw URL first
candidateUrls_RawFirst(trimmed, proxyEnabled) ==
  IF proxyEnabled THEN <<trimmed, buildProxyUrl(trimmed)>> ELSE <<trimmed>>

\* line 83
candidateUrls(trimmed, proxyEnabled) ==
  IF proxyEnabled THEN <<buildProxyUrl(trimmed), trimmed>> ELSE <<trimmed>>

\* the part of prepareImageForCapture before the first fetch: TRUE when the
\* function returns trimmed without fetching
returnsWithoutFetch(trimmed) ==
  \/ trimmed = EmptyString
  \/ isDataUrl(trimmed)
  \/ startsWith(trimmed, BlobPrefix)
  \/ ~isRemoteUrl(trimmed)

(* --------------------------- the change text -------------------------- *)
\* a normalization without the default for an empty result
normalizedChange_NoDefault(value) ==
  LET trimmed == trim(value)
      unsigned == IF trimmed # <<>> /\ Head(trimmed) \in {"+", "-"}
                    THEN Tail(trimmed)
                    ELSE trimmed
  IN  SelectSeq(unsigned, LAMBDA c : c # "%")

\* changePercent.trim().replace(/^[+-]/, '').replace(/%/g, '') || '0'
normalizedChange(value) ==
  LET trimmed == trim(value)
      unsigned == IF trimmed # <<>> /\ Head(trimmed) \in {"+", "-"}
                    THEN Tail(trimmed)
                    ELSE trimmed
      bare == SelectSeq(unsigned, LAMBDA c : c # "%")
  IN  IF bare = <<>> THEN <<"0">> ELSE bare

changeText(tr, value) ==
  <<IF tr = "down" THEN "-" ELSE "+">> \o normalizedChange(value) \o <<"%">>

\* a normalization that keeps the percent signs
normalizedChangeImpact_KeepsPercent(value) ==
  LET trimmed == trim(value)
      unsigned == IF trimmed # <<>> /\ Head(trimmed) \in {"+", "-"}
                    THEN Tail(trimmed)
                    ELSE trimmed
  IN  IF unsigned = <<>> THEN <<"0">> ELSE unsigned

\* YoutubeThumbnailImpact.tsx line 69
normalizedChangeImpact(value) ==
  LET trimmed == trim(value)
      unsigned == IF trimmed # <<>> /\ Head(trimmed) \in {"+", "-"}
                    THEN Tail(trimmed)
                    ELSE trimmed
      bare == SelectSeq(unsigned, LAMBDA c : c # "%")
  IN  IF bare = <<>> THEN <<"0">> ELSE bare

\* YoutubeThumbnailImpact.tsx line 70
changeTextImpact(tr, value) ==
  <<IF tr = "down" THEN "-" ELSE "+">> \o normalizedChangeImpact(value) \o <<"%">>

\* the change text of the composition rendered from the state s: each
\* template computes its own
renderedLabel(s) ==
  IF s.template = "impact"
    THEN changeTextImpact(s.trend, s.changePercent)
    ELSE changeText(s.trend, s.changePercent)

\* a file name whose extension ignores the format
formatFilename_AlwaysPng(tr, format, tpl) ==
  "pokemon-thumbnail-" \o tpl \o "-" \o tr \o ".png"

\* lines 150-151
formatFilename(tr, format, tpl) ==
  "pokemon-thumbnail-" \o tpl \o "-" \o tr \o "."
    \o (IF format = "jpeg" THEN "jpg" ELSE "png")

(* ------------------------------ the state ----------------------------- *)
\* the image elements of the composition: each template renders one <img>
ImgIds == {"card"}

\* values the user types into the image field
TypedImages == {PaddedRemoteUrl, PaddedDataUrl, ProxiedUrl, EmptyString}

\* values a capture strategy, or the font-ready promise, may throw: an Error
\* with a message, or some other value (an Event, a string)
ThrownValues ==
  { [isError |-> TRUE,  text |-> "tainted canvas"],
    [isError |-> FALSE, text |-> "image load event"] }

\* outcome of one fetch of prepareImageForCapture: fetch rejects, the status
\* is not ok, blob()/blobToDataUrl rejects, or a data URL is produced
FetchOutcomes == {"throw", "notOk", "badBody", "ok"}

Exports == 1..MaxExports

VARIABLES
  trend, template, cardImage, useProxy, exportFormat, changePercent, isDownloading,
  view,        \* the state of the committed render: what handlers close over
  img,         \* the <img> elements of the committed composition
  label,       \* the change text of the committed composition
  previewRef,  \* TRUE when previewRef.current is the composition root
  reading,     \* TRUE while a FileReader started by handleImageUpload runs
  ex,          \* the invocations of downloadThumbnail that passed the guard
  ignored,     \* invocations of downloadThumbnail that returned at the guard
  userEvents   \* user events handled so far

editor == <<trend, template, cardImage, useProxy, exportFormat, changePercent, isDownloading>>
vars == <<trend, template, cardImage, useProxy, exportFormat, changePercent, isDownloading,
          view, img, label, previewRef, reading, ex, ignored, userEvents>>

\* the useState values as one record
current ==
  [trend |-> trend, template |-> template, cardImage |-> cardImage,
   useProxy |-> useProxy, exportFormat |-> exportFormat,
   changePercent |-> changePercent, isDownloading |-> isDownloading]

DefaultState ==
  [trend |-> "up", template |-> "classic", cardImage |-> DefaultCardImage,
   useProxy |-> TRUE, exportFormat |-> "png",
   changePercent |-> DefaultChangePercent, isDownloading |-> FALSE]

NoExport ==
  [pc |-> "idle", cap |-> DefaultState, originalImage |-> EmptyString,
   shouldRestore |-> FALSE, trimmed |-> EmptyString, candidates |-> <<>>,
   idx |-> 0, preparedImage |-> EmptyString, waiting |-> {}, filename |-> "",
   node |-> FALSE, log |-> <<>>]

Init ==
  /\ trend = DefaultState.trend
  /\ template = DefaultState.template
  /\ cardImage = DefaultState.cardImage
  /\ useProxy = DefaultState.useProxy
  /\ exportFormat = DefaultState.exportFormat
  /\ changePercent = DefaultState.changePercent
  /\ isDownloading = DefaultState.isDownloading
  /\ view = DefaultState
  /\ img = [i \in ImgIds |->
             [src |-> displayCardImage(DefaultCardImage, TRUE),
              status |-> "loading"]]
  /\ label = changeText(DefaultState.trend, DefaultState.changePercent)
  /\ previewRef = TRUE
  /\ reading = FALSE
  /\ ex = [p \in Exports |-> NoExport]
  /\ ignored = 0
  /\ userEvents = 0

(* ------------------------------ rendering ----------------------------- *)
setState(s) ==
  /\ trend' = s.trend
  /\ template' = s.template
  /\ cardImage' = s.cardImage
  /\ useProxy' = s.useProxy
  /\ exportFormat' = s.exportFormat
  /\ changePercent' = s.changePercent
  /\ isDownloading' = s.isDownloading

\* a composition whose <img> is given the stored reference itself
renderedImg_RawSrc(s, i) ==
  IF s.cardImage # img[i].src \/ s.template # view.template
    THEN [src |-> s.cardImage, status |-> "loading"]
    ELSE img[i]

\* the <img> after the composition is rendered from state s: a changed src,
\* or a change of template (another component, so a new element), loads anew
renderedImg(s, i) ==
  LET src == displayCardImage(s.cardImage, s.useProxy)
  IN  IF src # img[i].src \/ s.template # view.template
        THEN [src |-> src, status |-> "loading"]
        ELSE img[i]

\* React commits a render of state s (nothing is rendered once unmounted)
commit(s) ==
  IF previewRef
    THEN /\ view' = s
         /\ img' = [i \in ImgIds |-> renderedImg(s, i)]
         /\ label' = renderedLabel(s)
    ELSE UNCHANGED <<view, img, label>>

\* a state update made in a DOM event handler: React renders before the
\* next event is handled
handleEvent(s) ==
  /\ previewRef
  /\ userEvents < MaxUserEvents
  /\ s # current
  /\ userEvents' = userEvents + 1
  /\ setState(s)
  /\ commit(s)
  /\ UNCHANGED <<previewRef, reading, ex, ignored>>

\* a state update made outside an event handler (after an await, in a
\* FileReader callback) is rendered later, by this step
Render ==
  /\ previewRef
  /\ view # current
  /\ commit(current)
  /\ UNCHANGED <<editor, previewRef, reading, ex, ignored, userEvents>>

(* ---------------------------- the form fields ------------------------- *)
\* onChange of the image URL field
typeCardImage == \E v \in TypedImages : handleEvent([current EXCEPT !.cardImage = v])

\* onChange of the proxy checkbox
toggleUseProxy == \E b \in BOOLEAN : handleEvent([current EXCEPT !.useProxy = b])

chooseTemplate ==
  \E t \in {"classic", "impact"} : handleEvent([current EXCEPT !.template = t])

chooseTrend == \E t \in {"up", "down"} : handleEvent([current EXCEPT !.trend = t])

chooseExportFormat ==
  \E f \in {"png", "jpeg"} : handleEvent([current EXCEPT !.exportFormat = f])

\* values the user types into the change-percent field
TypedPercents == {SpecExamplePercent}

\* onChange of the change-percent field
typeChangePercent ==
  \E v \in TypedPercents : handleEvent([current EXCEPT !.changePercent = v])

\* a reset that also clears the in-flight flag
handleReset_ClearsFlag == handleEvent(DefaultState)

\* lines 251-263
handleReset ==
  handleEvent([DefaultState EXCEPT !.isDownloading = isDownloading])

\* the change event of the file input: a file was chosen, a read starts
handleImageUpload ==
  /\ previewRef
  /\ ~reading
  /\ userEvents < MaxUserEvents
  /\ userEvents' = userEvents + 1
  /\ reading' = TRUE
  /\ UNCHANGED <<editor, view, img, label, previewRef, ex, ignored>>

\* reader.onload: the file's data URL becomes the stored image
readerOnload ==
  /\ reading
  /\ reading' = FALSE
  /\ cardImage' = UploadedImage
  /\ UNCHANGED <<trend, template, useProxy, exportFormat, changePercent, isDownloading,
                 view, img, label, previewRef, ex, ignored, userEvents>>

\* the image of the composition finishes loading, or fails to
imgSettles(i, loaded) ==
  /\ img[i].status = "loading"
  /\ loaded => img[i].src # EmptyString
  /\ img' = [img EXCEPT ![i].status = IF loaded THEN "loaded" ELSE "broken"]
  /\ ex' = [p \in Exports |-> [ex[p] EXCEPT !.waiting = @ \ {i}]]
  /\ UNCHANGED <<editor, view, label, previewRef, reading, ignored, userEvents>>

imgLoad == \E i \in ImgIds : imgSettles(i, TRUE)
imgError == \E i \in ImgIds : imgSettles(i, FALSE)

\* the editor is removed from the page
Unmount ==
  /\ previewRef
  /\ userEvents < MaxUserEvents
  /\ userEvents' = userEvents + 1
  /\ previewRef' = FALSE
  /\ UNCHANGED <<editor, view, img, label, reading, ex, ignored>>

(* --------------------------- capture and alert ------------------------ *)
CaptureWidth == 1280
CaptureHeight == 720
PixelRatio == 1
\* quality 0.92, in hundredths
JpegQuality == 92

\* what is on screen when a capture strategy rasterizes the root
onScreen == [template |-> view.template, trend |-> view.trend]

\* the data URL toJpeg / toPng resolves to
exportWithHtmlToImage(shot, format) ==
  [by |-> "html-to-image", shot |-> shot,
   width |-> CaptureWidth, height |-> CaptureHeight, scale |-> PixelRatio,
   mimeType |-> IF format = "jpeg" THEN "image/jpeg" ELSE "image/png",
   quality |-> IF format = "jpeg" THEN JpegQuality ELSE 0]

\* a fallback that always encodes PNG
exportWithHtml2Canvas_AlwaysPng(shot, format) ==
  [by |-> "html2canvas", shot |-> shot,
   width |-> CaptureWidth, height |-> CaptureHeight, scale |-> 1,
   mimeType |-> "image/png", quality |-> 0]

\* the data URL encoded from the html2canvas canvas
exportWithHtml2Canvas(shot, format) ==
  [by |-> "html2canvas", shot |-> shot,
   width |-> CaptureWidth, height |-> CaptureHeight, scale |-> 1,
   mimeType |-> IF format = "jpeg" THEN "image/jpeg" ELSE "image/png",
   quality |-> IF format = "jpeg" THEN JpegQuality ELSE 0]

\* line 238
errorMessage(error) == IF error.isError THEN error.text ELSE "Unknown error"

AlertHint ==
  "Download failed. Enable the image proxy or upload the image instead of using a URL."

\* the message without the error text
alertText_HintOnly(error) == AlertHint

\* lines 240-242
alertText(error) == AlertHint \o " (" \o errorMessage(error) \o ")"

(* ------------------------- the export pipeline ------------------------ *)
emit(r, e, v) == [r EXCEPT !.log = Append(@, [e |-> e, v |-> v])]

Active(p) == ex[p].pc \notin {"idle", "done"}

\* the guard without its isDownloading test
guardPasses_IgnoresFlag == previewRef

\* line 200: the handler reads the ref and the isDownloading of its render
guardPasses == previewRef /\ ~view.isDownloading

\* the record of a new invocation is kept in the first slot not in use
freeSlot(p) == ~Active(p) /\ \A q \in Exports : q < p => Active(q)

\* a comparison that never finds the prepared image different
swapNeeded_Never(r, preparedImage) == FALSE

\* line 215
swapNeeded(r, preparedImage) ==
  preparedImage # EmptyString /\ preparedImage # r.cap.cardImage

\* a finally block that leaves the swapped image in place
restoredImage_Skipped(r, stored) == stored

\* lines 244-246: the stored image after the finally block
restoredImage(r, stored) == IF r.shouldRestore THEN r.originalImage ELSE stored

\* a finally block that leaves the flag set
clearedFlag_StaysSet == TRUE

\* line 247
clearedFlag == FALSE

\* lines 225-228: the file name is computed and the primary strategy invoked
startCapture(r) ==
  emit([r EXCEPT !.pc = "primary",
                 !.filename = formatFilename(r.cap.trend, r.cap.exportFormat,
                                             r.cap.template),
                 !.node = previewRef],
       "primary", previewRef)

\* lines 50-71: the images waitForImages still has to hear from
notReady == {i \in ImgIds : img[i].status # "loaded"}

\* lines 221-223
enterWait(r) ==
  IF previewRef
    THEN [r EXCEPT !.pc = "waitForImages", !.waiting = notReady]
    ELSE startCapture(r)

\* a fall-through that returns the untrimmed argument
notInlined_Untrimmed(r) == r.cap.cardImage

\* line 98: the value returned when no candidate produced a data URL
notInlined(r) == r.trimmed

\* lines 215-223: prepareImageForCapture returned preparedImage
resume(p, r, preparedImage) ==
  LET r1 == [r EXCEPT !.preparedImage = preparedImage]
  IN  IF swapNeeded(r, preparedImage)
        THEN /\ cardImage' = preparedImage
             /\ ex' = [ex EXCEPT ![p] =
                         emit([r1 EXCEPT !.pc = "raf", !.shouldRestore = TRUE],
                              "swap", preparedImage)]
        ELSE /\ cardImage' = cardImage
             /\ ex' = [ex EXCEPT ![p] = enterWait(r1)]

\* lines 243-248: the finally block
finally(p, r) ==
  /\ cardImage' = restoredImage(r, cardImage)
  /\ isDownloading' = clearedFlag
  /\ ex' = [ex EXCEPT ![p] =
              emit(IF r.shouldRestore
                     THEN emit([r EXCEPT !.pc = "done"], "restore", r.originalImage)
                     ELSE [r EXCEPT !.pc = "done"],
                   "clear", clearedFlag)]

\* a catch block that only logs
catch_Silent(p, r, error) == finally(p, r)

\* lines 237-242 and the finally block
catch(p, r, error) == finally(p, emit(r, "alert", alertText(error)))

\* a download step that clicks the anchor twice
downloadDataUrl_Twice(r, dataUrl, filename) ==
  emit(emit(r, "download", [dataUrl |-> dataUrl, filename |-> filename]),
       "download", [dataUrl |-> dataUrl, filename |-> filename])

\* lines 101-106: the anchor is clicked, the browser saves dataUrl as filename
downloadDataUrl(r, dataUrl, filename) ==
  emit(r, "download", [dataUrl |-> dataUrl, filename |-> filename])

\* an inner catch that reports the primary failure to the user
primaryCatch_Alerts(r, error) == emit(r, "alert", alertText(error))

\* lines 231-233: the primary strategy threw; only a console warning
primaryCatch(r, error) == emit(r, "warn", "html-to-image export failed")

\* a return at the guard that also clears the in-flight flag
returnAtGuard_ClearsFlag ==
  /\ isDownloading' = FALSE
  /\ UNCHANGED <<trend, template, cardImage, useProxy, exportFormat, changePercent,
                 view, img, label, previewRef, reading, ex>>

\* lines 200-202: the handler returns before it touches anything
returnAtGuard == UNCHANGED <<editor, view, img, label, previewRef, reading, ex>>

\* lines 199-212: an invocation of the handler of the Download button
downloadThumbnail ==
  \/ /\ ~guardPasses
     /\ ignored' = ignored + 1
     /\ userEvents < MaxUserEvents
     /\ userEvents' = userEvents + 1
     /\ returnAtGuard
  \/ /\ guardPasses
     /\ \E p \in Exports, fontsSupported \in BOOLEAN :
          /\ freeSlot(p)
          /\ ex' = [ex EXCEPT ![p] =
                      [NoExport EXCEPT
                         !.pc = IF fontsSupported THEN "fonts" ELSE "prepare",
                         !.cap = view,
                         !.originalImage = view.cardImage]]
     /\ setState([current EXCEPT !.isDownloading = TRUE])
     /\ commit([current EXCEPT !.isDownloading = TRUE])
     /\ userEvents < MaxUserEvents
     /\ userEvents' = userEvents + 1
     /\ UNCHANGED <<previewRef, reading, ignored>>

\* line 211: document.fonts.ready settles
fontsReady(p) ==
  /\ ex[p].pc = "fonts"
  /\ \/ /\ ex' = [ex EXCEPT ![p] = emit([ex[p] EXCEPT !.pc = "prepare"],
                                         "fonts", "ready")]
        /\ UNCHANGED <<cardImage, isDownloading>>
     \/ \E error \in ThrownValues :
          catch(p, emit(ex[p], "fonts", "rejected"), error)
  /\ UNCHANGED <<trend, template, useProxy, exportFormat, changePercent,
                 view, img, label, previewRef, reading, ignored, userEvents>>

\* lines 73-87: prepareImageForCapture up to its first await
prepareImageForCapture(p) ==
  /\ ex[p].pc = "prepare"
  /\ LET r == ex[p]
         t == trim(r.cap.cardImage)
         urls == candidateUrls(t, r.cap.useProxy)
     IN  IF returnsWithoutFetch(t)
           THEN resume(p, [r EXCEPT !.trimmed = t], t)
           ELSE /\ ex' = [ex EXCEPT ![p] =
                            emit([r EXCEPT !.pc = "fetch", !.trimmed = t,
                                           !.candidates = urls, !.idx = 1],
                                 "fetch", urls[1])]
                /\ cardImage' = cardImage
  /\ UNCHANGED <<trend, template, useProxy, exportFormat, changePercent, isDownloading,
                 view, img, label, previewRef, reading, ignored, userEvents>>

\* lines 85-98: the fetch of the current candidate settles
fetchSettles(p) ==
  /\ ex[p].pc = "fetch"
  /\ \E outcome \in FetchOutcomes :
       LET r == emit(ex[p], "response", outcome)
       IN  IF outcome = "ok"
             THEN resume(p, r, InlinedImage)
             ELSE IF r.idx < Len(r.candidates)
               THEN /\ ex' = [ex EXCEPT ![p] =
                                emit([r EXCEPT !.idx = r.idx + 1],
                                     "fetch", r.candidates[r.idx + 1])]
                    /\ cardImage' = cardImage
               ELSE resume(p, r, notInlined(r))
  /\ UNCHANGED <<trend, template, useProxy, exportFormat, changePercent, isDownloading,
                 view, img, label, previewRef, reading, ignored, userEvents>>

\* line 218: the animation frame callback runs
animationFrame(p) ==
  /\ ex[p].pc = "raf"
  /\ ex' = [ex EXCEPT ![p] = enterWait(ex[p])]
  /\ UNCHANGED <<editor, view, img, label, previewRef, reading, ignored, userEvents>>

\* line 222: every listener of waitForImages has fired, Promise.all resolves
waitForImages(p) ==
  /\ ex[p].pc = "waitForImages"
  /\ ex[p].waiting = {}
  /\ ex' = [ex EXCEPT ![p] = startCapture(emit(ex[p], "waited", TRUE))]
  /\ UNCHANGED <<editor, view, img, label, previewRef, reading, ignored, userEvents>>

\* lines 227-235: exportWithHtmlToImage settles
primarySettles(p) ==
  /\ ex[p].pc = "primary"
  /\ \/ /\ ex[p].node
        /\ LET r == emit(ex[p], "primaryResult", "ok")
           IN  finally(p, downloadDataUrl(r,
                 exportWithHtmlToImage(onScreen, r.cap.exportFormat), r.filename))
     \/ /\ \E error \in ThrownValues :
             LET r == emit(ex[p], "primaryResult", "threw")
             IN  ex' = [ex EXCEPT ![p] =
                          emit([primaryCatch(r, error) EXCEPT
                                  !.pc = "fallback", !.node = previewRef],
                               "fallback", previewRef)]
        /\ UNCHANGED <<cardImage, isDownloading>>
  /\ UNCHANGED <<trend, template, useProxy, exportFormat, changePercent,
                 view, img, label, previewRef, reading, ignored, userEvents>>

\* lines 235-242: exportWithHtml2Canvas settles
fallbackSettles(p) ==
  /\ ex[p].pc = "fallback"
  /\ \/ /\ ex[p].node
        /\ LET r == emit(ex[p], "fallbackResult", "ok")
           IN  finally(p, downloadDataUrl(r,
                 exportWithHtml2Canvas(onScreen, r.cap.exportFormat), r.filename))
     \/ \E error \in ThrownValues :
          catch(p, emit(emit(ex[p], "fallbackResult", "threw"), "thrown", error),
                error)
  /\ UNCHANGED <<trend, template, useProxy, exportFormat, changePercent,
                 view, img, label, previewRef, reading, ignored, userEvents>>

\* the wait of the export p is over: the rest of downloadThumbnail, up to the
\* call of the primary strategy, runs in microtasks, before any other event
waitOver(p) == ex[p].pc = "waitForImages" /\ ex[p].waiting = {}

\* no continuation is due: the browser takes the next event
eventLoopTurn == \A p \in Exports : ~waitOver(p)

Next ==
  \/ eventLoopTurn /\ typeCardImage
  \/ eventLoopTurn /\ toggleUseProxy
  \/ eventLoopTurn /\ chooseTemplate
  \/ eventLoopTurn /\ chooseTrend
  \/ eventLoopTurn /\ chooseExportFormat
  \/ eventLoopTurn /\ typeChangePercent
  \/ eventLoopTurn /\ handleReset
  \/ eventLoopTurn /\ handleImageUpload
  \/ eventLoopTurn /\ readerOnload
  \/ eventLoopTurn /\ Render
  \/ eventLoopTurn /\ imgLoad
  \/ eventLoopTurn /\ imgError
  \/ eventLoopTurn /\ Unmount
  \/ eventLoopTurn /\ downloadThumbnail
  \/ \E p \in Exports : fontsReady(p)
  \/ \E p \in Exports : prepareImageForCapture(p)
  \/ \E p \in Exports : fetchSettles(p)
  \/ \E p \in Exports : animationFrame(p)
  \/ \E p \in Exports : waitForImages(p)
  \/ \E p \in Exports : primarySettles(p)
  \/ \E p \in Exports : fallbackSettles(p)

Spec == Init /\ [][Next]_vars


(* ------------------------- the form, any content ---------------------- *)
\* the strings over alphabet of length at most n
Strings(alphabet, n) == UNION {[1..k -> alphabet] : k \in 0..n}

Pads == Strings({" ", "\n"}, MaxPad)

ImageBases ==
  {EmptyString, UploadedImage, BlobUrl, RemoteUrl, MixedCaseUrl, ProxiedUrl,
   ProxiedDefaultCardImage, LocalPath, DefaultCardImage}

\* what the image field can hold: a reference with whitespace around it
ImageInputs == {pre \o base \o post : pre \in Pads, base \in ImageBases, post \in Pads}

PercentChars == {"+", "-", "%", " ", "7"}

\* what the change-percent field can hold
PercentInputs ==
  Strings(PercentChars, MaxPercentLen) \cup {DefaultChangePercent, SpecExamplePercent}

\* the editor whose image field and proxy checkbox, or whose change-percent
\* field, trend and template, hold any content, before React has rendered it
FormInit ==
  /\ \/ /\ cardImage \in ImageInputs
        /\ useProxy \in BOOLEAN
        /\ changePercent = DefaultState.changePercent
        /\ trend = DefaultState.trend
        /\ template = DefaultState.template
     \/ /\ changePercent \in PercentInputs
        /\ trend \in {"up", "down"}
        /\ template \in {"classic", "impact"}
        /\ cardImage = DefaultState.cardImage
        /\ useProxy = DefaultState.useProxy
  /\ exportFormat = DefaultState.exportFormat
  /\ isDownloading = DefaultState.isDownloading
  /\ view = DefaultState
  /\ img = [i \in ImgIds |->
             [src |-> displayCardImage(DefaultCardImage, TRUE),
              status |-> "loading"]]
  /\ label = changeText(DefaultState.trend, DefaultState.changePercent)
  /\ previewRef = TRUE
  /\ reading = FALSE
  /\ ex = [p \in Exports |-> NoExport]
  /\ ignored = 0
  /\ userEvents = 0

\* React renders the form: the templates compute the image source and the
\* change text
FormNext == Render

FormSpec == FormInit /\ [][FormNext]_vars

(* ------------------------------ settling ----------------------------- *)
\* a step of the export p: something it awaits settles
step(p) ==
  \/ fontsReady(p)
  \/ prepareImageForCapture(p)
  \/ fetchSettles(p)
  \/ animationFrame(p)
  \/ waitForImages(p)
  \/ primarySettles(p)
  \/ fallbackSettles(p)

\* anything that happens without the user: a promise settles, an image
\* loads or fails, the file is read, React renders
Settle ==
  \/ \E p \in Exports : step(p)
  \/ imgLoad
  \/ imgError
  \/ readerOnload
  \/ Render

(* ------------------------- reading the records ------------------------ *)
entries(r, e) == SelectSeq(r.log, LAMBDA x : x.e = e)
count(r, e) == Len(entries(r, e))
has(r, e, v) == \E k \in 1..Len(r.log) : r.log[k].e = e /\ r.log[k].v = v
Done(p) == ex[p].pc = "done"
value(r, e) == entries(r, e)[1].v
bothFailed(r) ==
  has(r, "primaryResult", "threw") /\ has(r, "fallbackResult", "threw")

(* ------------------------------- claims ------------------------------- *)
\* C1: at most one export is past the guard at any time; a request made
\* while an export is in flight starts none, so no export downloads or
\* restores the image more than once
C1_AtMostOneExportInFlight ==
  /\ Cardinality({p \in Exports : Active(p)}) <= 1
  /\ \A p \in Exports :
       count(ex[p], "download") <= 1 /\ count(ex[p], "restore") <= 1

\* an export is in flight and a second request was turned away by the guard
C1_Witness == previewRef /\ ignored > 0 /\ \E p \in Exports : Active(p)

\* C2: an export that swapped the stored image sets it back to the reference
\* captured at entry on every exit, before it clears the in-flight flag
C2_RestoredBeforeFlagCleared ==
  [][\A p \in Exports :
       (Active(p) /\ Done(p)' /\ count(ex[p], "swap") > 0)
         => LET log == ex'[p].log
            IN  /\ cardImage' = ex[p].originalImage
                /\ log[Len(log) - 1] = [e |-> "restore", v |-> ex[p].originalImage]
                /\ log[Len(log)].e = "clear"]_vars

\* an export that swapped the image ended in an alert, the image is back
C2_Witness ==
  \E p \in Exports :
    /\ Done(p)
    /\ count(ex[p], "swap") > 0
    /\ count(ex[p], "alert") > 0
    /\ cardImage = ex[p].originalImage

\* C3: every exit of an export clears the in-flight flag, so once no export
\* is in flight the flag is clear and the rendered handler passes the guard
C3_FlagClearedOnEveryExit ==
  /\ \A p \in Exports :
       Done(p) => ex[p].log[Len(ex[p].log)] = [e |-> "clear", v |-> FALSE]
  /\ (\A p \in Exports : ~Active(p))
       => /\ ~isDownloading
          /\ (previewRef /\ view = current) => guardPasses

\* an export ended in the catch block and the next request would pass
C3_Witness ==
  \E p \in Exports :
    Done(p) /\ has(ex[p], "fonts", "rejected") /\ guardPasses

\* C4: an export that set the in-flight flag ends, when everything it
\* awaits settles and every image loads or fails: an export in flight is never
\* left with nothing more to settle
C4_ExportRunsToCompletion ==
  (\E p \in Exports : Active(p)) => ENABLED Settle

\* C5: the waiter never waits for an image that has already loaded or
\* failed: it returns as soon as every image is loaded or broken
C5_WaiterReturnsWhenImagesSettled ==
  \A p \in Exports :
    ex[p].pc = "waitForImages"
      => \A i \in ex[p].waiting : img[i].status = "loading"

\* C6: when the primary strategy throws and the fallback succeeds there is
\* exactly one download, of the fallback's result, and no alert
C6_FallbackSupersedesPrimary ==
  \A p \in Exports :
    (has(ex[p], "primaryResult", "threw") /\ has(ex[p], "fallbackResult", "ok"))
      => /\ Done(p)
         /\ count(ex[p], "download") = 1
         /\ value(ex[p], "download").dataUrl.by = "html2canvas"
         /\ value(ex[p], "download").filename = ex[p].filename
         /\ count(ex[p], "alert") = 0

\* an export whose primary strategy threw ended with the fallback's download
C6_Witness ==
  \E p \in Exports :
    /\ has(ex[p], "primaryResult", "threw")
    /\ has(ex[p], "fallbackResult", "ok")
    /\ count(ex[p], "download") = 1

\* C7 as stated: when both strategies fail there is no download, one alert
\* made of the hint and the text of the error thrown, and the flag is clear
C7_AlertCarriesErrorText ==
  \A p \in Exports :
    bothFailed(ex[p])
      => /\ Done(p)
         /\ count(ex[p], "download") = 0
         /\ count(ex[p], "alert") = 1
         /\ value(ex[p], "alert")
              = AlertHint \o " (" \o value(ex[p], "thrown").text \o ")"
         /\ (\A q \in Exports : ~Active(q)) => ~isDownloading

\* C7 amended: the alert carries the message of the error thrown when that is
\* an Error, and the words Unknown error when it is any other value
C7_AlertCarriesMessageOfErrors ==
  \A p \in Exports :
    bothFailed(ex[p])
      => /\ Done(p)
         /\ count(ex[p], "download") = 0
         /\ count(ex[p], "alert") = 1
         /\ value(ex[p], "alert")
              = AlertHint \o " ("
                  \o (IF value(ex[p], "thrown").isError
                        THEN value(ex[p], "thrown").text
                        ELSE "Unknown error")
                  \o ")"
         /\ (\A q \in Exports : ~Active(q)) => ~isDownloading

\* both strategies failed, the fallback with a value that is not an Error
C7_Witness ==
  \E p \in Exports :
    /\ bothFailed(ex[p])
    /\ ~value(ex[p], "thrown").isError
    /\ count(ex[p], "alert") = 1
    /\ ~isDownloading

\* C8 as stated: an export alerts only when both capture strategies failed
C8_AlertOnlyWhenBothStrategiesFail ==
  \A p \in Exports : count(ex[p], "alert") > 0 => bothFailed(ex[p])

\* C8 amended: an export alerts, once, exactly when both capture strategies
\* failed or the font-ready promise rejected; failed fetches and images that
\* fail to load produce no alert
C8_AlertOnlyFromCaptureOrFonts ==
  \A p \in Exports :
    /\ count(ex[p], "alert") <= 1
    /\ count(ex[p], "alert") = 1
         <=> (Done(p) /\ (bothFailed(ex[p]) \/ has(ex[p], "fonts", "rejected")))

\* the font-ready promise rejected and the export alerted without capturing
C8_Witness ==
  \E p \in Exports :
    /\ has(ex[p], "fonts", "rejected")
    /\ count(ex[p], "alert") = 1
    /\ count(ex[p], "primary") = 0

isPrefix(s, t) == Len(s) <= Len(t) /\ s = SubSeq(t, 1, Len(s))

\* the URLs fetched so far by the export r, in order
fetched(r) == [k \in 1..count(r, "fetch") |-> entries(r, "fetch")[k].v]

\* the remote URLs the image field of the editor can hold, trimmed, and
\* their relay rewrites, computed once
EditorUrls ==
  {trim(u) : u \in {v \in TypedImages \cup {DefaultCardImage} : isRemoteUrl(trim(v))}}
RelayRewrites == [u \in EditorUrls |-> buildProxyUrl(u)]
relayRewrite(url) ==
  IF url \in EditorUrls THEN RelayRewrites[url] ELSE buildProxyUrl(url)

\* the candidates of the export r: proxied form first when the proxy flag of
\* its render is set, then the trimmed URL
expectedCandidates(r) ==
  LET url == trim(r.originalImage)
  IN  IF r.cap.useProxy THEN <<relayRewrite(url), url>> ELSE <<url>>

noFetchAfter(r, k) == \A j \in (k + 1)..Len(r.log) : r.log[j].e # "fetch"

\* C9 as stated: candidates are fetched in the order proxied, raw, each at
\* most once, and after a response with a successful status none is fetched
C9_FirstSuccessfulResponseWins ==
  \A p \in Exports :
    /\ count(ex[p], "fetch") > 0
         => isPrefix(fetched(ex[p]), expectedCandidates(ex[p]))
    /\ \A k \in 1..Len(ex[p].log) :
         (ex[p].log[k].e = "response" /\ ex[p].log[k].v \in {"ok", "badBody"})
           => noFetchAfter(ex[p], k)

\* C9 amended: after a candidate whose response is successful and whose body
\* became a data URL none is fetched; after any other outcome the next
\* candidate, if there is one, is fetched
C9_FirstInlinedCandidateWins ==
  \A p \in Exports :
    count(ex[p], "fetch") > 0
      => LET urls == fetched(ex[p])
             expected == expectedCandidates(ex[p])
         IN  /\ isPrefix(urls, expected)
             /\ \A k \in 1..Len(ex[p].log) :
                  ex[p].log[k].e = "response"
                    => IF ex[p].log[k].v = "ok"
                         THEN noFetchAfter(ex[p], k)
                         ELSE \/ Len(urls) = Len(expected)
                              \/ (k < Len(ex[p].log) /\ ex[p].log[k + 1].e = "fetch")

\* the body of the proxied response could not be read, the raw URL was fetched
C9_Witness ==
  \E p \in Exports :
    /\ ex[p].cap.useProxy
    /\ fetched(ex[p]) = expectedCandidates(ex[p])
    /\ \E k \in 1..(Len(ex[p].log) - 1) :
         /\ ex[p].log[k] = [e |-> "response", v |-> "badBody"]
         /\ ex[p].log[k + 1].e = "fetch"

\* every candidate of the export r was fetched and none produced a data URL
notInlinedCase(r) ==
  /\ count(r, "fetch") > 0
  /\ count(r, "response") = count(r, "fetch")
  /\ ~has(r, "response", "ok")
  /\ fetched(r) = expectedCandidates(r)

notForInlining(raw) ==
  \/ raw = EmptyString
  \/ startsWith(raw, DataPrefix)
  \/ startsWith(raw, BlobPrefix)
  \/ ~isRemoteUrl(raw)

\* C11: an export of a reference that is empty, embedded, a local blob or not
\* an http/https URL fetches nothing and never writes the stored image: it
\* neither swaps nor restores it
C11_LocalReferenceIsNeverWritten ==
  \A p \in Exports :
    notForInlining(ex[p].originalImage)
      => /\ count(ex[p], "fetch") = 0
         /\ count(ex[p], "swap") = 0
         /\ count(ex[p], "restore") = 0

\* C12: a request rejected by the guard (no root attached, or an export in
\* flight) changes nothing: not the flag, the stored image, the render or any
\* export, so it fetches, downloads and alerts nothing; it is not queued, so
\* no export is ever started for it
C12_RejectedRequestDoesNothing ==
  /\ [](Cardinality({p \in Exports : ex[p].pc # "idle"}) + ignored <= userEvents)
  /\ [][ignored' # ignored
          => /\ ~(previewRef /\ ~view.isDownloading)
             /\ UNCHANGED <<editor, view, img, label, previewRef, reading, ex>>]_vars

\* a request was rejected while an export was in flight, and that export ended
\* with its one download
C12_Witness ==
  /\ ignored > 0
  /\ \E p \in Exports : Done(p) /\ count(ex[p], "download") = 1

\* the events of the export r other than the settling of the font-ready promise
trace(r) == SelectSeq(r.log, LAMBDA x : x.e # "fonts")

\* the export r of a remote URL (no whitespace around it, not yet proxied),
\* started with the proxy on, format PNG, template classic and trend up, whose
\* proxied fetch produced a data URL and whose primary capture succeeded
successScenario(r) ==
  /\ r.cap.useProxy
  /\ r.cap.exportFormat = "png"
  /\ r.cap.template = "classic"
  /\ r.cap.trend = "up"
  /\ has(r, "primaryResult", "ok")
  /\ has(r, "response", "ok")
  /\ count(r, "response") = 1
  /\ isRemoteUrl(r.cap.cardImage)
  /\ r.cap.cardImage[Len(r.cap.cardImage)] \notin Whitespace
  /\ ~isProxyUrl(r.cap.cardImage)

\* C13: in the success scenario the events of the export are, in order: the
\* proxied fetch and its response (the raw URL is never fetched), the swap to
\* the inlined image, the end of the readiness wait, the primary capture, one
\* download named pokemon-thumbnail-classic-up.png, the restoration of the
\* original URL, and the clearing of the flag
C13_SuccessScenarioOrder ==
  \A p \in Exports :
    successScenario(ex[p])
      => LET t == trace(ex[p])
             url == ex[p].cap.cardImage
         IN  /\ Done(p)
             /\ [k \in 1..Len(t) |-> t[k].e]
                  = <<"fetch", "response", "swap", "waited", "primary",
                      "primaryResult", "download", "restore", "clear">>
             /\ t[1].v = RelayBase
                           \o encodeURIComponent(SubSeq(url, schemeLen(url) + 1, Len(url)))
             /\ t[3].v = InlinedImage
             /\ t[7].v.dataUrl.by = "html-to-image"
             /\ t[7].v.dataUrl.mimeType = "image/png"
             /\ t[7].v.filename = "pokemon-thumbnail-classic-up.png"
             /\ t[8].v = url
             /\ url # InlinedImage

\* the export of the default image ran through the success scenario
C13_Witness ==
  \E p \in Exports :
    /\ successScenario(ex[p])
    /\ ex[p].cap.cardImage = DefaultCardImage
    /\ trace(ex[p])[1].v = ProxiedDefaultCardImage
    /\ count(ex[p], "download") = 1
    /\ count(ex[p], "restore") = 1

(* ---------------------- claims about the normalizer -------------------- *)
\* React has rendered the content of the form
rendered == view = current

\* the image reference the template was given
given == img["card"].src

embedded(s) == startsWith(s, DataPrefix) \/ startsWith(s, BlobPrefix)

remote(s) ==
  \E scheme \in {HttpScheme, HttpsScheme} :
    /\ Len(s) >= Len(scheme)
    /\ \A k \in 1..Len(scheme) : toLower(s[k]) = scheme[k]

relayed(s) == includes(s, WeservMarker) \/ includes(s, WsrvMarker)

blank(s) == \A k \in 1..Len(s) : s[k] \in Whitespace

\* s without the whitespace around it: from its first character that is not
\* whitespace to its last
core(s) ==
  IF \A k \in 1..Len(s) : s[k] \in Whitespace
    THEN <<>>
    ELSE SubSeq(s,
           CHOOSE i \in 1..Len(s) :
             s[i] \notin Whitespace /\ \A k \in 1..(i - 1) : s[k] \in Whitespace,
           CHOOSE j \in 1..Len(s) :
             s[j] \notin Whitespace /\ \A k \in (j + 1)..Len(s) : s[k] \in Whitespace)

\* C14 as stated: a reference that starts with data: or blob: is given to the
\* template exactly as stored, whitespace at its end included, whatever the
\* proxy flag
C14_EmbeddedReturnedExactly ==
  (rendered /\ embedded(cardImage)) => given = cardImage

\* C14 amended: a reference that starts with data: or blob: is given to the
\* template without the whitespace at its end, and otherwise as stored,
\* whatever the proxy flag
C14_EmbeddedReturnedTrimmed ==
  (rendered /\ embedded(cardImage))
    => /\ isPrefix(given, cardImage)
       /\ given[Len(given)] \notin Whitespace
       /\ \A k \in (Len(given) + 1)..Len(cardImage) : cardImage[k] \in Whitespace

\* an embedded image followed by whitespace was rendered with the proxy on
C14_Witness ==
  /\ rendered
  /\ useProxy
  /\ embedded(cardImage)
  /\ cardImage[Len(cardImage)] \in Whitespace
  /\ given = SubSeq(cardImage, 1, Len(cardImage) - 1)

\* the remote URL s with its scheme stripped
afterScheme(s) ==
  IF Len(s) >= Len(HttpsScheme)
       /\ \A k \in 1..Len(HttpsScheme) : toLower(s[k]) = HttpsScheme[k]
    THEN SubSeq(s, Len(HttpsScheme) + 1, Len(s))
    ELSE SubSeq(s, Len(HttpScheme) + 1, Len(s))

\* C15 as stated: a reference u that begins with http:// or https:// is given
\* to the template as the relay base followed by the percent-encoding of u
\* without its scheme when the proxy flag is set, and as u when it is not
C15_RemoteRewrittenOrUnchanged ==
  (rendered /\ remote(cardImage))
    => given = IF useProxy
                 THEN RelayBase \o encodeURIComponent(afterScheme(cardImage))
                 ELSE cardImage

\* C15 amended: with t the reference u without the whitespace at its end, and
\* u not a relay URL already: the template is given the relay base followed by
\* the percent-encoding of t without its scheme when the proxy flag is set,
\* and t when it is not; a relay URL is given as t in both cases
C15_RemoteTrimmedThenRewritten ==
  (rendered /\ remote(cardImage))
    => LET t == core(cardImage)
       IN  given = IF useProxy /\ ~relayed(cardImage)
                     THEN RelayBase \o encodeURIComponent(afterScheme(t))
                     ELSE t

\* a remote URL followed by whitespace was rendered behind the relay
C15_Witness ==
  /\ rendered
  /\ useProxy
  /\ remote(cardImage)
  /\ ~relayed(cardImage)
  /\ cardImage[Len(cardImage)] \in Whitespace
  /\ startsWith(given, RelayBase)
  /\ given # RelayBase \o encodeURIComponent(afterScheme(cardImage))

\* C16: the normalizer is idempotent: the reference given to the template,
\* normalized again with the same proxy flag, comes back unchanged; a relay
\* URL normalized with the proxy on is given as it is
C16_NormalizerIsIdempotent ==
  rendered
    => /\ displayCardImage(given, useProxy) = given
       /\ (useProxy /\ relayed(cardImage) /\ core(cardImage) = cardImage)
            => given = cardImage

\* a relay URL was rendered with the proxy on and given to the template as is
C16_Witness ==
  /\ rendered
  /\ useProxy
  /\ cardImage = ProxiedUrl
  /\ given = ProxiedUrl

\* C17 as stated: a blank reference (empty or only whitespace) is given to
\* the template as stored, and so is a reference that is neither embedded, nor
\* a relay URL, nor an http/https URL, whatever the proxy flag
C17_BlankAndOtherReturnedAsIs ==
  rendered
    => /\ blank(cardImage) => given = cardImage
       /\ (~embedded(cardImage) /\ ~relayed(cardImage) /\ ~remote(cardImage))
            => given = cardImage

\* C17 amended: with t the stored reference without the whitespace around it:
\* a blank reference is given as the empty string; an embedded reference or a
\* relay URL is given as t, before the remote rule applies; a reference that is
\* neither embedded, nor a relay URL, nor an http/https URL is given as t
C17_RulesApplyToTrimmedReference ==
  rendered
    => LET t == core(cardImage)
       IN  /\ blank(cardImage) => (t = EmptyString /\ given = EmptyString)
           /\ (embedded(t) \/ relayed(t)) => given = t
           /\ (~embedded(t) /\ ~relayed(t) /\ ~remote(t)) => given = t

\* a reference made of whitespace only was rendered as the empty string
C17_Witness ==
  /\ rendered
  /\ cardImage # EmptyString
  /\ blank(cardImage)
  /\ given = EmptyString

\* the relay markers as they appear in a URL rewritten to the relay
RewrittenWeservMarker == encodeURIComponent(WeservMarker)
RewrittenWsrvMarker == encodeURIComponent(WsrvMarker)

\* the image reference src given to the template in the render of the state v
\* is the normalizer's result for the stored reference and the proxy flag of
\* that render: never the stored remote URL itself while the proxy is on, and
\* never a relay URL rewritten to the relay a second time
normalizedFor(v, src) ==
  /\ src = displayCardImage(v.cardImage, v.useProxy)
  /\ (v.useProxy /\ remote(core(v.cardImage)) /\ ~relayed(v.cardImage))
       => (src # v.cardImage /\ startsWith(src, RelayBase))
  /\ relayed(v.cardImage) => src = core(v.cardImage)
  /\ ~includes(src, RewrittenWeservMarker)
  /\ ~includes(src, RewrittenWsrvMarker)

\* C18: the template is given the normalized reference, without a second
\* relay rewrite, in the first render and after every step that renders
\* another stored reference or proxy flag or changes the source of the image
\* element, hence in every reachable state
C18_TemplateGivenNormalizedReference ==
  /\ [](view = DefaultState => normalizedFor(view, img["card"].src))
  /\ [][(view'.cardImage # view.cardImage \/ view'.useProxy # view.useProxy
            \/ img'["card"].src # img["card"].src)
          => normalizedFor(view', img'["card"].src)]_vars

\* a relay URL was typed with the proxy on and the template was given it as is
C18_Witness ==
  /\ rendered
  /\ useProxy
  /\ cardImage = ProxiedUrl
  /\ given = ProxiedUrl
  /\ userEvents > 0

\* the file name the specification gives for a template, a trend and a format
expectedFilename(tpl, tr, format) ==
  CASE tpl = "classic" /\ tr = "up" /\ format = "png" -> "pokemon-thumbnail-classic-up.png"
    [] tpl = "classic" /\ tr = "up" /\ format = "jpeg" -> "pokemon-thumbnail-classic-up.jpg"
    [] tpl = "classic" /\ tr = "down" /\ format = "png" -> "pokemon-thumbnail-classic-down.png"
    [] tpl = "classic" /\ tr = "down" /\ format = "jpeg" -> "pokemon-thumbnail-classic-down.jpg"
    [] tpl = "impact" /\ tr = "up" /\ format = "png" -> "pokemon-thumbnail-impact-up.png"
    [] tpl = "impact" /\ tr = "up" /\ format = "jpeg" -> "pokemon-thumbnail-impact-up.jpg"
    [] tpl = "impact" /\ tr = "down" /\ format = "png" -> "pokemon-thumbnail-impact-down.png"
    [] tpl = "impact" /\ tr = "down" /\ format = "jpeg" -> "pokemon-thumbnail-impact-down.jpg"

\* formatFilename gives the specified name for each of the eight combinations
namesAsSpecified ==
  \A tpl \in {"classic", "impact"}, tr \in {"up", "down"}, format \in {"png", "jpeg"} :
    formatFilename(tr, format, tpl) = expectedFilename(tpl, tr, format)

\* C19: for every template, trend and format the file name is
\* pokemon-thumbnail-<template>-<trend>.<ext>, with ext png for PNG and jpg
\* for JPEG, and every download an export triggers carries that name for the
\* template, trend and format of the render in which Download was clicked
C19_DownloadFilename ==
  /\ namesAsSpecified
  /\ \A p \in Exports :
       \A k \in 1..Len(ex[p].log) :
         ex[p].log[k].e = "download"
           => ex[p].log[k].v.filename
                = expectedFilename(ex[p].cap.template, ex[p].cap.trend,
                                   ex[p].cap.exportFormat)

\* a JPEG export triggered its download
C19_Witness ==
  \E p \in Exports :
    /\ ex[p].cap.exportFormat = "jpeg"
    /\ count(ex[p], "download") = 1
    /\ value(ex[p], "download").filename = "pokemon-thumbnail-classic-up.jpg"

(* --------------------- claims about the change text -------------------- *)
\* s without a sign at its start
withoutSign(s) == IF s # <<>> /\ s[1] \in {"+", "-"} THEN Tail(s) ELSE s

\* s without a percent sign at its end
withoutSuffix(s) ==
  IF s # <<>> /\ s[Len(s)] = "%" THEN SubSeq(s, 1, Len(s) - 1) ELSE s

trendSign == IF trend = "down" THEN "-" ELSE "+"

\* C20 as stated: the change text is the input without its leading sign and
\* its percent suffix, after + for the trend up and - for the trend down, and
\* before %
C20_ChangeTextStripsSignAndSuffix ==
  rendered
    => label = <<trendSign>> \o withoutSuffix(withoutSign(changePercent)) \o <<"%">>

\* C20 amended: the input loses the whitespace around it, then one leading
\* sign, then every percent sign; when nothing is left the number is 0; the
\* text is that number after + or - for the trend and before %: 375 with up
\* gives +375%, -12% with down gives -12%
C20_ChangeTextNormalized ==
  rendered
    => LET number == SubSeq(label, 2, Len(label) - 1)
           kept == SelectSeq(withoutSign(core(changePercent)), LAMBDA c : c # "%")
       IN  /\ Len(label) >= 3
           /\ label[1] = trendSign
           /\ label[Len(label)] = "%"
           /\ number = IF kept = <<>> THEN <<"0">> ELSE kept
           /\ (changePercent = DefaultChangePercent /\ trend = "up")
                => label = <<"+", "3", "7", "5", "%">>
           /\ (changePercent = SpecExamplePercent /\ trend = "down")
                => label = <<"-", "1", "2", "%">>

\* an empty change-percent field was rendered as +0%
C20_Witness ==
  /\ rendered
  /\ changePercent = EmptyString
  /\ trend = "up"
  /\ label = <<"+", "0", "%">>

invoked(p, s) ==
  /\ ex'[p].node
  /\ Len(ex'[p].log) > Len(ex[p].log)
  /\ ex'[p].log[Len(ex'[p].log)].e = s

\* the font-ready wait of the export r, when it made one, has completed
fontsWaited(r) == count(r, "fonts") > 0 => has(r, "fonts", "ready")

\* C22: a capture strategy is called on the composition root only after the
\* font-ready wait and the image wait have completed; when the primary
\* strategy is called no image of the root is still loading, and the image
\* whose source the export swapped to the inlined value, unless the user has
\* replaced it since, is the image of the root
C22_CaptureAfterFontsAndImages ==
  [][\A p \in Exports :
       /\ (invoked(p, "primary") \/ invoked(p, "fallback"))
            => /\ fontsWaited(ex'[p])
               /\ has(ex'[p], "waited", TRUE)
       /\ invoked(p, "primary")
            => /\ \A i \in ImgIds : img'[i].status # "loading"
               /\ (count(ex'[p], "swap") > 0 /\ cardImage' = ex'[p].preparedImage)
                    => \E i \in ImgIds :
                         img'[i].src = displayCardImage(cardImage', useProxy')]_vars

\* C23: an export whose primary strategy succeeded never calls the fallback,
\* triggers exactly one download, of the primary's result, and alerts nothing;
\* no export triggers more than one download, or both a download and an alert
C23_PrimarySuccessMeansOneDownload ==
  \A p \in Exports :
    /\ has(ex[p], "primaryResult", "ok")
         => /\ Done(p)
            /\ count(ex[p], "fallback") = 0
            /\ count(ex[p], "fallbackResult") = 0
            /\ count(ex[p], "download") = 1
            /\ value(ex[p], "download").dataUrl.by = "html-to-image"
            /\ count(ex[p], "alert") = 0
    /\ count(ex[p], "download") <= 1
    /\ ~(count(ex[p], "download") > 0 /\ count(ex[p], "alert") > 0)

\* an export without a fetch ended with the download of its primary capture
C23_Witness ==
  \E p \in Exports :
    /\ Done(p)
    /\ has(ex[p], "primaryResult", "ok")
    /\ count(ex[p], "fetch") = 0
    /\ count(ex[p], "download") = 1
    /\ count(ex[p], "alert") = 0

\* the file names with the extension of the format
namesOfFormat(format) ==
  {expectedFilename(tpl, tr, format) : tpl \in {"classic", "impact"}, tr \in {"up", "down"}}

\* C24: every download, whichever strategy produced it, was captured at
\* 1280x720 with scaling factor 1 and is encoded in the format requested when
\* Download was clicked: image/png for PNG, image/jpeg at quality 0.92 for
\* JPEG; its file name ends in png for a PNG and in jpg for a JPEG
C24_CaptureSizeAndEncoding ==
  \A p \in Exports :
    \A k \in 1..Len(ex[p].log) :
      ex[p].log[k].e = "download"
        => LET dataUrl == ex[p].log[k].v.dataUrl
               filename == ex[p].log[k].v.filename
           IN  /\ dataUrl.by \in {"html-to-image", "html2canvas"}
               /\ dataUrl.width = 1280
               /\ dataUrl.height = 720
               /\ dataUrl.scale = 1
               /\ ex[p].cap.exportFormat = "png"
                    => /\ dataUrl.mimeType = "image/png"
                       /\ filename \in namesOfFormat("png")
               /\ ex[p].cap.exportFormat = "jpeg"
                    => /\ dataUrl.mimeType = "image/jpeg"
                       /\ dataUrl.quality = 92
                       /\ filename \in namesOfFormat("jpeg")

\* the fallback produced the download of a JPEG export
C24_Witness ==
  \E p \in Exports :
    /\ ex[p].cap.exportFormat = "jpeg"
    /\ count(ex[p], "download") = 1
    /\ value(ex[p], "download").dataUrl.by = "html2canvas"
    /\ value(ex[p], "download").dataUrl.mimeType = "image/jpeg"

(* ------------------ claims about edits during an export ----------------- *)
\* the values the export r itself stored as the image reference, or found
\* there when it began
ownImages(r) ==
  {r.originalImage} \cup (IF count(r, "swap") > 0 THEN {value(r, "swap")} ELSE {})

\* C25: when an export finishes while the stored image reference is a value
\* the user set during the export (one that is neither the reference captured
\* when the export began nor the inlined value the export swapped in), the
\* stored reference is still that value afterwards
C25_UserImageSurvivesExport ==
  [][\A p \in Exports :
       (Active(p) /\ ex'[p].pc = "done" /\ cardImage \notin ownImages(ex[p]))
         => cardImage' = cardImage]_vars

\* C26: an export of a reference that is already a relay URL, started with
\* the proxy flag set, fetches the stored reference itself and nothing else:
\* never a relay rewrite of it
C26_ProxiedReferenceFetchedAsIs ==
  \A p \in Exports :
    (count(ex[p], "fetch") > 0 /\ ex[p].cap.useProxy /\ relayed(ex[p].originalImage))
      => \A k \in 1..Len(ex[p].log) :
           ex[p].log[k].e = "fetch" => ex[p].log[k].v = ex[p].originalImage

\* C27: when an export triggers its download, the template and the trend in
\* the file name are those of the composition captured, which is the one on
\* screen at that moment, and the content is encoded in the format selected
\* on screen at that moment
C27_FilenameMatchesCapturedComposition ==
  [][\A p \in Exports :
       (count(ex[p], "download") = 0 /\ count(ex'[p], "download") = 1)
         => LET download == value(ex'[p], "download")
            IN  /\ download.dataUrl.shot = [template |-> view.template, trend |-> view.trend]
                /\ download.filename
                     = expectedFilename(download.dataUrl.shot.template,
                                        download.dataUrl.shot.trend,
                                        view.exportFormat)
                /\ download.dataUrl.mimeType
                     = (IF view.exportFormat = "jpeg" THEN "image/jpeg" ELSE "image/png")]_vars

(* ---------------- claims about the change-text algebra ----------------- *)
Signs == {"+", "-"}

\* the number between the sign and the percent sign of the rendered text
body == SubSeq(label, 2, Len(label) - 1)

\* the normalization of the template that is rendered
normalizedAgain(s) ==
  IF view.template = "impact" THEN normalizedChangeImpact(s) ELSE normalizedChange(s)

\* the text the template that is not rendered computes for the same input
otherTemplateText ==
  IF view.template = "impact"
    THEN changeText(trend, changePercent)
    ELSE changeTextImpact(trend, changePercent)

\* the input holds signs, percent signs and whitespace only
noOtherContent(s) == \A k \in 1..Len(s) : s[k] \in Signs \cup {"%"} \cup Whitespace

====
